---- MODULE Spec2Model ----
(***************************************************************************)
(* A model of SignalCraft's risk-and-position engine (PositionManager,     *)
(* src/app/models/position_manager.py), of the signal aggregation of       *)
(* StrategyHandler (src/app/handlers/strategy_handler.py) and of the       *)
(* /ws/backtest request handler (src/app/app.py).                          *)
(*                                                                         *)
(* Money and prices are whole dollars; a percentage such as 0.08 is the    *)
(* integer 8, and every comparison of a ratio with a percentage is done by *)
(* cross-multiplying, so the arithmetic is the exact rational arithmetic   *)
(* the Python floats approximate.  int(x) truncates toward zero (Trunc).   *)
(***************************************************************************)
EXTENDS Integers, FiniteSets, Sequences, TLC

VARIABLES
    is_backtest,       \* PositionManager.is_backtest
    positions,         \* PositionManager.positions: ticker -> Position (a dict)
    pending_closes,    \* PositionManager.pending_closes
    cash_balance,      \* simulated ledger
    equity,            \* simulated ledger
    unrealized_pnl,    \* simulated ledger
    last,              \* the last PositionManager call: its arguments and result
    steps,             \* number of state-changing calls made so far
    running_backtests, \* BacktestSystem.running_backtests
    tasks,             \* backtest tasks created by asyncio.create_task, in creation order
    handler,           \* per /ws/backtest connection: the await its coroutine is
                       \* suspended at, and its locals ticker and strategy
    replies,           \* per connection: the replies sent so far, in order
    signal_call,       \* the last StrategyHandler.generate_signals call: its
                       \* inputs and what it returned
    pending_orders,    \* PositionManager.pending_orders
    close_requests,    \* the brokerage: per ticker, the close requests it was
                       \* sent and has not confirmed yet
    app                \* the lifespan context of the application: where it is,
                       \* which parts the trading system has, the trader task

pmVars == <<is_backtest, positions, pending_closes, cash_balance, equity,
            unrealized_pnl, last, steps>>
wsVars == <<running_backtests, tasks, handler, replies>>
shVars == <<signal_call>>
brVars == <<pending_orders, close_requests>>
appVars == <<app>>
vars == <<is_backtest, positions, pending_closes, cash_balance, equity,
          unrealized_pnl, last, steps, running_backtests, tasks, handler, replies,
          signal_call, pending_orders, close_requests, app>>

(***************************************************************************)
(* Bounds and input sets                                                   *)
(***************************************************************************)
MaxSteps == 5
MaxMessages == 3
MaxRequests == 2

Tickers == {"T1", "T2"}

BUY == "buy"
SELL == "sell"
Sides == {BUY, SELL}

\* The /ws/backtest connections, and what a request message may carry.
Conns == {"c1", "c2"}
NoValue == "(none)"
Messages == [ticker : Tickers \cup {NoValue}, strategy : {"support_resistance", NoValue}]

\* Prices each ticker trades at (signal prices, fill prices, price updates).
PricesOf(t) == IF t = "T1" THEN {40, 50} ELSE {3000}

\* Program constants of PositionManager.__init__, percentages as integers.
max_position_size == 8
max_total_exposure == 160
starting_balance == 30000
\* pl_pct < -0.02: the loss threshold of calculate_target_position.
loss_threshold == -2

\* target_pct arguments: <<>> is None (the default max_position_size), <<k>> an
\* explicit percentage k.
TargetPcts == {<<>>, <<36>>}

\* Live mode: what the brokerage's get_account reports as equity.
LiveEquities == {30000, 1500}

\* Signal.score and Signal.momentum in hundredths (30 is 0.30); <<>> is None.
Scores == {<<>>, <<0>>, <<30>>, <<70>>}
Momenta == {<<>>, <<-3>>, <<3>>}
Signals == [score : Scores, momentum : Momenta]

\* datetime.now() - position.entry_time, in hours: 0, 5 days 12 hours, 6 days.
HeldHours == {0, 132, 144}

\* StrategyHandler: the configured tickers, the strategy registry in its order
\* (the loop of line 47 runs over whatever is registered; two entries make the
\* merge of lines 50-53 visible), and what generate_signal may return: None, a
\* signal whose action is None, or a signal with an action.
ConfiguredTickers == <<"T1", "VXX", "T2">>
Strategies == <<"support_resistance", "markov">>
StrategyOutputs == {"none", "no_action", BUY}

(***************************************************************************)
(* Arithmetic helpers                                                      *)
(***************************************************************************)
Abs(x) == IF x < 0 THEN -x ELSE x

\* Python's int(n / d) for d > 0: truncation toward zero.
Trunc(n, d) == IF n >= 0 THEN n \div d ELSE -((-n) \div d)

\* floor(n / d) for d > 0, as the specification words it.
Floor(n, d) == n \div d

RECURSIVE SumValue(_, _)
\* Sum over the tickers S of |qty| * current_price of pos[t].
SumValue(pos, S) ==
    IF S = {} THEN 0
    ELSE LET t == CHOOSE x \in S : TRUE
         IN  Abs(pos[t].qty) * pos[t].current_price + SumValue(pos, S \ {t})

(***************************************************************************)
(* Position (app.models.position)                                          *)
(***************************************************************************)
SideSign(side) == IF side = SELL THEN -1 ELSE 1

\* Position.update_pl(price): refresh current price and unrealized P&L.
update_pl(p, price) ==
    [p EXCEPT !.current_price = price,
              !.pl = SideSign(p.side) * (price - p.entry_price) * Abs(p.qty)]

\* Position(ticker, qty, entry_price, side, entry_time): a fresh position.
NewPosition(qty, price, side, open) ==
    [qty |-> qty, entry_price |-> price, current_price |-> price,
     side |-> side, is_open |-> open, pl |-> 0]

\* pl_pct < k / 100, with pl_pct = (current - entry) / entry, sign-adjusted by side.
PlPctBelow(p, k) ==
    SideSign(p.side) * (p.current_price - p.entry_price) * 100 < k * p.entry_price

\* Position.get_exposure(eq) >= k / 100, with get_exposure = |qty| * current / eq.
\* A negative equity makes the exposure negative; eq = 0 is handled by the caller.
ExposureAtLeast(p, eq, k) ==
    eq > 0 /\ Abs(p.qty) * p.current_price * 100 >= k * eq

(***************************************************************************)
(* PositionManager.calculate_target_position                               *)
(***************************************************************************)
Result(shares, allow) == [shares |-> shares, allow |-> allow, raised |-> FALSE]
Raised == [shares |-> 0, allow |-> FALSE, raised |-> TRUE]

\* Lines 49-51: positions that are not pending close.
ActiveTickers(pos, pending) == DOMAIN pos \ pending

\* Line 56: total_exposure >= max_total_exposure.
TotalExposureAtLeast(pos, pending, eq, k) ==
    eq > 0 /\ SumValue(pos, ActiveTickers(pos, pending)) * 100 >= k * eq

\* Line 61: target_pct if given, else max_position_size.
PositionSize(target_pct) ==
    IF target_pct = <<>> THEN max_position_size ELSE target_pct[1]

\* ExistingPositionSizing without the test of line 71 (already at target size).
ExistingPositionSizing_NoTargetCheck(p, price, side, pct, eq) ==
    IF side = SELL /\ p.qty = 0 THEN Result(0, FALSE)
    ELSE IF PlPctBelow(p, loss_threshold) THEN Result(0, FALSE)
    ELSE Result(Trunc(eq * pct - 100 * p.qty * price, 100 * price), TRUE)

\* Lines 66-86: a position for the ticker exists among the active ones.
ExistingPositionSizing(p, price, side, pct, eq) ==
    IF side = BUY /\ ExposureAtLeast(p, eq, pct) THEN Result(0, FALSE)
    ELSE IF side = SELL /\ p.qty = 0 THEN Result(0, FALSE)
    ELSE IF PlPctBelow(p, loss_threshold) THEN Result(0, FALSE)
    ELSE Result(Trunc(eq * pct - 100 * p.qty * price, 100 * price), TRUE)

\* Lines 88-92: no active position for the ticker.
NewPositionSizing(price, side, pct, eq) ==
    Result(Trunc(eq * pct, 100 * price), side = BUY)

\* The whole function, for account equity eq.  get_exposure divides by the
\* equity outside the try block (line 52), so an equity of 0 with an active
\* position raises ZeroDivisionError to the caller.
calculate_target_position(pos, pending, ticker, price, side, target_pct, eq) ==
    LET active == ActiveTickers(pos, pending)
        pct    == PositionSize(target_pct)
    IN  IF eq = 0 /\ active # {} THEN Raised
        ELSE IF side = BUY /\ TotalExposureAtLeast(pos, pending, eq, max_total_exposure)
             THEN Result(0, FALSE)
        ELSE IF ticker \in active
             THEN ExistingPositionSizing(pos[ticker], price, side, pct, eq)
        ELSE NewPositionSizing(price, side, pct, eq)

(***************************************************************************)
(* PositionManager.should_close_position                                   *)
(***************************************************************************)
\* Python truthiness of an optional number: None and 0 are both false.
Truthy(x) == x # <<>> /\ x[1] # 0

\* abs(pl_pct) < k / 100.
PlPctAbsBelow(p, k) ==
    Abs(p.current_price - p.entry_price) * 100 < k * p.entry_price

\* Lines 195-196 and 222: the exposure of every position of the map, pending
\* close or not, exceeds k / 100.
TotalExposureOver(pos, eq, k) ==
    eq > 0 /\ SumValue(pos, DOMAIN pos) * 100 > k * eq

\* timedelta.days: whole days, the remainder dropped.
Days(hours) == hours \div 24

\* Lines 206-211: the score is against the position.
ScoreAgainst(p, score) ==
    Truthy(score) /\ \/ p.side = BUY /\ score[1] < 40
                     \/ p.side = SELL /\ score[1] > 60

\* Lines 214-219: the momentum is against the position.
MomentumAgainst(p, momentum) ==
    Truthy(momentum) /\ \/ p.side = BUY /\ momentum[1] < -2
                        \/ p.side = SELL /\ momentum[1] > 2

\* Lines 222-226: over-exposed and the score on the weak side of neutral.
WeakWhileOverExposed(pos, p, score, eq) ==
    /\ Truthy(score)
    /\ TotalExposureOver(pos, eq, max_total_exposure)
    /\ \/ p.side = BUY /\ score[1] < 50
       \/ p.side = SELL /\ score[1] > 50

\* Lines 229-231: held for more than 5 whole days with |pl_pct| < 1%.
Stagnant(p, hours) == Days(hours) > 5 /\ PlPctAbsBelow(p, 1)

\* Lines 199-231: the reasons accumulated for closing position p.
CloseReasons(pos, p, signal, hours, eq) ==
    (IF PlPctBelow(p, -4) THEN {"stop_loss"} ELSE {})
    \cup (IF ScoreAgainst(p, signal.score) THEN {"score"} ELSE {})
    \cup (IF MomentumAgainst(p, signal.momentum) THEN {"momentum"} ELSE {})
    \cup (IF WeakWhileOverExposed(pos, p, signal.score, eq) THEN {"exposure"} ELSE {})
    \cup (IF Stagnant(p, hours) THEN {"stagnant"} ELSE {})

Verdict(close) == [close |-> close, raised |-> FALSE]
VerdictRaised == [close |-> FALSE, raised |-> TRUE]

\* The whole function, for account equity eq and a position held for hours.
\* get_exposure divides by the equity (line 195), so an equity of 0 raises.
should_close_position(pos, ticker, signal, hours, eq) ==
    IF ticker \notin DOMAIN pos THEN Verdict(FALSE)
    ELSE IF eq = 0 THEN VerdictRaised
    ELSE Verdict(CloseReasons(pos, pos[ticker], signal, hours, eq) # {})

(***************************************************************************)
(* StrategyHandler.generate_signals (src/app/handlers/strategy_handler.py)  *)
(***************************************************************************)
ConfiguredSet == {ConfiguredTickers[i] : i \in DOMAIN ConfiguredTickers}
StrategySet == {Strategies[j] : j \in DOMAIN Strategies}

\* Lines 50-53 with the test of line 51 left out: whatever the strategy returned
\* is stored, so a later None or action-less signal replaces an earlier signal.
Merge_StoresEverything(signal_data, ticker, strategy, out) ==
    [t \in DOMAIN signal_data \cup {ticker} |->
        IF t = ticker THEN [strategy |-> strategy, action |-> out]
        ELSE signal_data[t]]

\* Lines 50-53: the signal of one strategy is stored under the ticker when it is
\* not None and its action is not None; otherwise signal_data is left alone.
Merge(signal_data, ticker, strategy, out) ==
    IF out \in {"none", "no_action"} THEN signal_data
    ELSE [t \in DOMAIN signal_data \cup {ticker} |->
             IF t = ticker THEN [strategy |-> strategy, action |-> out]
             ELSE signal_data[t]]

RECURSIVE RunStrategies(_, _, _, _, _)
\* Lines 47-53: the strategies from the j-th on, in registry order, over one
\* ticker's data; every strategy is skipped when the data is empty.
RunStrategies(signal_data, ticker, empty, outs, j) ==
    IF j > Len(Strategies) THEN signal_data
    ELSE RunStrategies(IF empty THEN signal_data
                       ELSE Merge(signal_data, ticker, Strategies[j],
                                  outs[ticker][Strategies[j]]),
                       ticker, empty, outs, j + 1)

RECURSIVE RunTickers(_, _, _, _, _)
\* Lines 35-55: the tickers from the i-th on.  VXX is skipped (line 36).  In
\* live mode line 45 reads ticker_data['timestamp'].iloc[-1], which raises on
\* an empty series before the test of line 48 is reached.
RunTickers(signal_data, i, backtest, empty, outs) ==
    IF i > Len(ConfiguredTickers)
    THEN [result |-> signal_data, raised |-> FALSE]
    ELSE LET ticker == ConfiguredTickers[i]
         IN  IF ticker = "VXX"
             THEN RunTickers(signal_data, i + 1, backtest, empty, outs)
             ELSE IF ~backtest /\ empty[ticker]
             THEN [result |-> [t \in {} |-> 0], raised |-> TRUE]
             ELSE RunTickers(RunStrategies(signal_data, ticker, empty[ticker], outs, 1),
                             i + 1, backtest, empty, outs)

\* generate_signals(is_backtest, backtest_data).
generate_signals(backtest, empty, outs) ==
    RunTickers([t \in {} |-> 0], 1, backtest, empty, outs)

NoSignalCall ==
    [op |-> "init", backtest |-> FALSE,
     empty |-> [t \in ConfiguredSet |-> FALSE],
     outs |-> [t \in ConfiguredSet |-> [st \in StrategySet |-> "none"]],
     result |-> [t \in {} |-> 0], raised |-> FALSE]

\* One call of generate_signals.  empty[t] says whether the stored series of t
\* is empty, outs[t][st] what strategy st returns when it is run on t's data.
\* signal_data is local to the call, so calls do not influence one another and
\* one call per behaviour covers them all.
GenerateSignals(backtest, empty, outs) ==
    /\ signal_call.op = "init"
    /\ signal_call' =
          [op |-> "generate", backtest |-> backtest, empty |-> empty, outs |-> outs,
           result |-> generate_signals(backtest, empty, outs).result,
           raised |-> generate_signals(backtest, empty, outs).raised]
    /\ UNCHANGED <<appVars, pmVars, wsVars, brVars>>

(***************************************************************************)
(* The application before lifespan() runs (src/app/app.py)                 *)
(***************************************************************************)
NotStarted ==
    [phase |-> "created", data_handler |-> FALSE, backtest_system |-> FALSE,
     trader_task |-> "none", stop_invoked |-> FALSE, raised |-> FALSE]

(***************************************************************************)
(* The record of the last call                                             *)
(***************************************************************************)
NoCall ==
    [op |-> "init", ticker |-> "", price |-> 0, side |-> "", pct |-> 0,
     eq |-> 0, shares |-> 0, allow |-> FALSE, raised |-> FALSE,
     accepted |-> FALSE, cash_before |-> 0, qty_before |-> 0,
     side_before |-> "", held_before |-> FALSE, pending_before |-> FALSE,
     signal |-> [score |-> <<>>, momentum |-> <<>>], hours |-> 0, close |-> FALSE,
     failed |-> FALSE, open_before |-> FALSE]

EmptyPositions == [t \in {} |-> 0]

Init ==
    /\ is_backtest \in BOOLEAN
    /\ positions = EmptyPositions
    /\ pending_closes = {}
    /\ cash_balance = starting_balance
    /\ equity = starting_balance
    /\ unrealized_pnl = 0
    /\ last = NoCall
    /\ steps = 0
    /\ running_backtests = {}
    /\ tasks = <<>>
    /\ handler = [c \in Conns |-> [pc |-> "receive", ticker |-> NoValue,
                                    strategy |-> NoValue]]
    /\ replies = [c \in Conns |-> <<>>]
    /\ signal_call = NoSignalCall
    /\ pending_orders = <<>>
    /\ close_requests = [t \in Tickers |-> 0]
    /\ app = NotStarted

\* get_account_info()['equity']: the simulated ledger's equity.
get_backtest_account_info == equity

\* The arguments and result of calculate_target_position, as `last` keeps them.
DecisionRecord(ticker, price, side, target_pct, eq, r) ==
    [NoCall EXCEPT !.op = "decide", !.ticker = ticker, !.price = price,
                   !.side = side, !.pct = PositionSize(target_pct), !.eq = eq,
                   !.shares = r.shares, !.allow = r.allow, !.raised = r.raised,
                   !.cash_before = cash_balance,
                   !.held_before = ticker \in DOMAIN positions,
                   !.pending_before = ticker \in pending_closes]

\* A sizing decision in simulated mode: the account is the simulated ledger.
SizingDecisionBacktest(ticker, price, side, target_pct) ==
    /\ is_backtest
    /\ last' = DecisionRecord(ticker, price, side, target_pct, get_backtest_account_info,
                   calculate_target_position(positions, pending_closes, ticker, price,
                                             side, target_pct, get_backtest_account_info))
    /\ UNCHANGED <<is_backtest, positions, pending_closes, cash_balance, equity,
                   unrealized_pnl, steps>>
    /\ UNCHANGED <<appVars, wsVars, shVars, brVars>>

\* The arguments and result of should_close_position, as `last` keeps them.
CloseCheckRecord(ticker, signal, hours, eq, v) ==
    [NoCall EXCEPT !.op = "should_close", !.ticker = ticker, !.signal = signal,
                   !.hours = hours, !.eq = eq, !.close = v.close,
                   !.raised = v.raised,
                   !.held_before = ticker \in DOMAIN positions,
                   !.pending_before = ticker \in pending_closes]

\* An exit evaluation in simulated mode.
ShouldClosePositionBacktest(ticker, signal, hours) ==
    /\ is_backtest
    /\ last' = CloseCheckRecord(ticker, signal, hours, get_backtest_account_info,
                   should_close_position(positions, ticker, signal, hours,
                                         get_backtest_account_info))
    /\ UNCHANGED <<is_backtest, positions, pending_closes, cash_balance, equity,
                   unrealized_pnl, steps>>
    /\ UNCHANGED <<appVars, wsVars, shVars, brVars>>

(***************************************************************************)
(* PositionManager.update_positions_backtest                               *)
(***************************************************************************)
\* Lines 341-351: the order is turned down (insufficient funds, or nothing to sell).
OrderRejected(order) ==
    \/ order.side = BUY /\ cash_balance - order.qty * order.price < 0
    \/ order.side = SELL /\ order.ticker \notin DOMAIN positions

\* Lines 343 and 361 (BUY), line 357 (SELL): the cash balance after an accepted order.
CashAfterOrder(order) ==
    IF order.side = BUY
    THEN (cash_balance - order.qty * order.price) - order.qty * order.price
    ELSE cash_balance + order.qty * order.price

\* Lines 352-367: the position the map holds for the order's ticker afterwards.
PositionAfterOrder(order) ==
    update_pl(NewPosition(order.qty, order.price, order.side, order.side = BUY),
              order.price)

\* The fill of the order the last sizing decision authorised (a positive share
\* count with allow = true), applied by update_positions(order) in simulated mode.
UpdatePositionsBacktest ==
    /\ is_backtest
    /\ steps < MaxSteps
    /\ last.op = "decide" /\ last.allow /\ last.shares > 0
    /\ LET order == [ticker |-> last.ticker, qty |-> last.shares,
                     price |-> last.price, side |-> last.side]
           held  == order.ticker \in DOMAIN positions
       IN  /\ last' = [NoCall EXCEPT !.op = "fill", !.ticker = order.ticker,
                          !.price = order.price, !.side = order.side,
                          !.shares = order.qty, !.accepted = ~OrderRejected(order),
                          !.cash_before = cash_balance, !.held_before = held,
                          !.qty_before = IF held THEN positions[order.ticker].qty ELSE 0,
                          !.open_before = held /\ positions[order.ticker].is_open]
           /\ IF OrderRejected(order)
              THEN UNCHANGED <<positions, cash_balance>>
              ELSE /\ cash_balance' = CashAfterOrder(order)
                   /\ positions' = [t \in DOMAIN positions \cup {order.ticker} |->
                                      IF t = order.ticker THEN PositionAfterOrder(order)
                                      ELSE positions[t]]
    /\ steps' = steps + 1
    /\ UNCHANGED <<is_backtest, pending_closes, equity, unrealized_pnl>>
    /\ UNCHANGED <<appVars, wsVars, shVars, brVars>>

(***************************************************************************)
(* PositionManager.close_position_backtest                                 *)
(***************************************************************************)
\* Lines 156-157: the cash balance after closing position p at the signal's price.
CashAfterClose(p, price) == cash_balance - p.qty * price

\* PositionsAfterClose with the deletion of line 161 left out.
PositionsAfterClose_KeepsTicker(ticker) == positions

\* Line 161: del self.positions[ticker].
PositionsAfterClose(ticker) ==
    [t \in DOMAIN positions \ {ticker} |-> positions[t]]

\* close_position(ticker, signal) in simulated mode.
ClosePositionBacktest(ticker, price) ==
    /\ is_backtest
    /\ steps < MaxSteps
    /\ LET held == ticker \in DOMAIN positions
       IN  /\ last' = [NoCall EXCEPT !.op = "close", !.ticker = ticker, !.price = price,
                          !.accepted = held, !.held_before = held,
                          !.cash_before = cash_balance,
                          !.qty_before = IF held THEN positions[ticker].qty ELSE 0,
                          !.side_before = IF held THEN positions[ticker].side ELSE ""]
           /\ IF held
              THEN /\ cash_balance' = CashAfterClose(positions[ticker], price)
                   /\ positions' = PositionsAfterClose(ticker)
              ELSE UNCHANGED <<positions, cash_balance>>
    /\ steps' = steps + 1
    /\ UNCHANGED <<is_backtest, pending_closes, equity, unrealized_pnl>>
    /\ UNCHANGED <<appVars, wsVars, shVars, brVars>>

(***************************************************************************)
(* PositionManager.check_positions                                         *)
(***************************************************************************)
\* Line 120: Signal(strategy="stop-loss", ticker=..., price=...) carries neither
\* a score nor a momentum.
StopLossSignal == [score |-> <<>>, momentum |-> <<>>]

\* Line 121: the positions for which should_close_position(...) is True.
ClosablePositions(hours) ==
    {t \in DOMAIN positions :
        should_close_position(positions, t, StopLossSignal, hours,
                              get_backtest_account_info).close}

\* check_positions(ticker_to_price_map) in simulated mode, for a map that
\* prices every held ticker.  The loop of line 119 runs over
\* self.positions.items() while close_position_backtest deletes from that
\* dict (line 161): the first close makes the next step of the iteration raise
\* RuntimeError (dictionary changed size during iteration), also when the
\* closed position was the last of the dict.  The model's map has no order,
\* so any closable ticker may be the first the loop meets.
CheckPositionsBacktest(mapping, hours) ==
    /\ is_backtest
    /\ steps < MaxSteps
    /\ DOMAIN positions \subseteq DOMAIN mapping
    /\ LET call == [NoCall EXCEPT !.op = "check", !.hours = hours,
                                  !.cash_before = cash_balance,
                                  !.held_before = (positions # EmptyPositions)]
       IN  IF positions # EmptyPositions /\ get_backtest_account_info = 0
           THEN /\ last' = [call EXCEPT !.raised = TRUE]
                /\ UNCHANGED <<positions, cash_balance>>
           ELSE IF ClosablePositions(hours) = {}
           THEN /\ last' = call
                /\ UNCHANGED <<positions, cash_balance>>
           ELSE \E t \in ClosablePositions(hours) :
                   /\ last' = [call EXCEPT !.ticker = t, !.price = mapping[t],
                                           !.close = TRUE, !.raised = TRUE]
                   /\ cash_balance' = CashAfterClose(positions[t], mapping[t])
                   /\ positions' = PositionsAfterClose(t)
    /\ steps' = steps + 1
    /\ UNCHANGED <<is_backtest, pending_closes, equity, unrealized_pnl>>
    /\ UNCHANGED <<appVars, wsVars, shVars, brVars>>

(***************************************************************************)
(* PositionManager.update_backtest_account_position_values                 *)
(***************************************************************************)
RECURSIVE SumPl(_, _)
SumPl(pos, S) ==
    IF S = {} THEN 0
    ELSE LET t == CHOOSE x \in S : TRUE IN pos[t].pl + SumPl(pos, S \ {t})

\* Lines 371-375: every held ticker of the mapping gets update_pl(price).
PositionsAfterBatch(mapping) ==
    [t \in DOMAIN positions |->
        IF t \in DOMAIN mapping THEN update_pl(positions[t], mapping[t])
        ELSE positions[t]]

\* Line 375: unrealized_pnl += pl, once per held ticker of the mapping.
UnrealizedAfterBatch(mapping) ==
    unrealized_pnl
      + SumPl(PositionsAfterBatch(mapping), DOMAIN mapping \cap DOMAIN positions)

\* EquityAfterBatch computed from the unrealized P&L as it was before the batch.
EquityAfterBatch_StalePnl(mapping) == cash_balance + unrealized_pnl

\* Line 377.
EquityAfterBatch(mapping) == cash_balance + UnrealizedAfterBatch(mapping)

\* One price update batch; mapping is ticker_to_price_mapping.
UpdateBacktestAccountPositionValues(mapping) ==
    /\ is_backtest
    /\ steps < MaxSteps
    /\ positions' = PositionsAfterBatch(mapping)
    /\ unrealized_pnl' = UnrealizedAfterBatch(mapping)
    /\ equity' = EquityAfterBatch(mapping)
    /\ last' = [NoCall EXCEPT !.op = "batch", !.cash_before = cash_balance]
    /\ steps' = steps + 1
    /\ UNCHANGED <<is_backtest, pending_closes, cash_balance>>
    /\ UNCHANGED <<appVars, wsVars, shVars, brVars>>

\* The price mappings a batch may carry: any tickers, each at one of its prices.
PriceMappings ==
    UNION {{m \in [S -> UNION {PricesOf(t) : t \in S}] :
               \A t \in S : m[t] \in PricesOf(t)} : S \in SUBSET Tickers}

(***************************************************************************)
(* Live mode: the brokerage capability                                     *)
(***************************************************************************)
\* What get_all_positions may report for a ticker: qty (signed), avg_entry_price
\* and current_price.
BrokerPositionsOf(t) ==
    IF t = "T1"
    THEN {[qty |-> 48, entry_price |-> 50, current_price |-> 50],
          [qty |-> 48, entry_price |-> 50, current_price |-> 40],
          [qty |-> -48, entry_price |-> 50, current_price |-> 50]}
    ELSE {[qty |-> 1, entry_price |-> 3000, current_price |-> 3000]}

\* The listings get_all_positions may return: any tickers, each with one report.
BrokerListings ==
    UNION {{m \in [S -> UNION {BrokerPositionsOf(t) : t \in S}] :
               \A t \in S : m[t] \in BrokerPositionsOf(t)} : S \in SUBSET Tickers}

\* Where a brokerage call of update_positions may fail.
SyncFailures == {"none", "get_all_positions", "get_account"}

\* What trading_client.close_position may answer.
CloseOutcomes == {"accepted", "other_status", "raised"}

\* A sizing decision in live mode: get_account (line 45, outside the try block)
\* either reports an equity or raises to the caller.
SizingDecisionLive(ticker, price, side, target_pct, eq, account_fails) ==
    /\ ~is_backtest
    /\ last' = DecisionRecord(ticker, price, side, target_pct, eq,
                   IF account_fails THEN Raised
                   ELSE calculate_target_position(positions, pending_closes, ticker,
                                                  price, side, target_pct, eq))
    /\ UNCHANGED <<is_backtest, positions, pending_closes, cash_balance, equity,
                   unrealized_pnl, steps>>
    /\ UNCHANGED <<appVars, wsVars, shVars, brVars>>

\* An exit evaluation in live mode: with a position for the ticker, get_account
\* (line 194, in no try block) either reports an equity or raises to the caller.
ShouldClosePositionLive(ticker, signal, hours, eq, account_fails) ==
    /\ ~is_backtest
    /\ last' = CloseCheckRecord(ticker, signal, hours, eq,
                   IF ticker \in DOMAIN positions /\ account_fails THEN VerdictRaised
                   ELSE should_close_position(positions, ticker, signal, hours, eq))
    /\ UNCHANGED <<is_backtest, positions, pending_closes, cash_balance, equity,
                   unrealized_pnl, steps>>
    /\ UNCHANGED <<appVars, wsVars, shVars, brVars>>

\* Lines 281-300: the position kept for one reported ticker.  A position already
\* in the map keeps its side; a new one gets BUY for qty > 0, SELL otherwise.
SyncedPosition(t, report) ==
    LET base == IF t \in DOMAIN positions
                THEN [positions[t] EXCEPT !.qty = report.qty,
                                          !.entry_price = report.entry_price]
                ELSE NewPosition(report.qty, report.entry_price,
                                 IF report.qty > 0 THEN BUY ELSE SELL, TRUE)
    IN  update_pl(base, report.current_price)

\* Lines 277-303: the position map after a listing was fetched.
PositionsAfterSync(listing) ==
    [t \in DOMAIN listing |-> SyncedPosition(t, listing[t])]

\* The brokerage confirms a close by no longer reporting the ticker: a listing
\* without the ticker leaves no close request for it outstanding.
ConfirmedCloses(listing) ==
    [t \in Tickers |-> IF t \in DOMAIN listing THEN close_requests[t] ELSE 0]

\* update_positions() in live mode.  A failing get_all_positions leaves the map
\* alone; a failing get_account (line 306) comes after the map was rewritten.
UpdatePositionsLive(listing, failure) ==
    /\ ~is_backtest
    /\ steps < MaxSteps
    /\ positions' = IF failure = "get_all_positions" THEN positions
                    ELSE PositionsAfterSync(listing)
    /\ last' = [NoCall EXCEPT !.op = "sync", !.accepted = (failure = "none"),
                              !.raised = FALSE, !.failed = (failure # "none")]
    /\ close_requests' = IF failure = "get_all_positions" THEN close_requests
                         ELSE ConfirmedCloses(listing)
    /\ steps' = steps + 1
    /\ UNCHANGED <<is_backtest, pending_closes, cash_balance, equity, unrealized_pnl>>
    /\ UNCHANGED <<appVars, wsVars, shVars, pending_orders>>

\* Lines 130-135: the close request reaches the brokerage.
CloseSubmitted(ticker, available) == ticker \notin pending_closes /\ available

\* Lines 137-148: pending_closes after close_position(ticker).
PendingAfterClose(ticker, available, outcome) ==
    IF CloseSubmitted(ticker, available) /\ outcome = "accepted"
    THEN pending_closes \cup {ticker}
    ELSE pending_closes

\* Line 138: the brokerage receives the request unless the call itself fails.
\* The count of unconfirmed requests stops at MaxRequests.
RequestsAfterClose(ticker, available, outcome) ==
    IF CloseSubmitted(ticker, available) /\ outcome # "raised"
    THEN [close_requests EXCEPT ![ticker] = IF @ < MaxRequests THEN @ + 1 ELSE @]
    ELSE close_requests

\* close_position(ticker) in live mode.  available is the answer of
\* check_position_available (False also when its brokerage call fails).
ClosePositionLive(ticker, available, outcome) ==
    /\ ~is_backtest
    /\ steps < MaxSteps
    /\ pending_closes' = PendingAfterClose(ticker, available, outcome)
    /\ last' = [NoCall EXCEPT !.op = "close_live", !.ticker = ticker,
                              !.accepted = CloseSubmitted(ticker, available),
                              !.held_before = ticker \in DOMAIN positions,
                              !.pending_before = ticker \in pending_closes,
                              !.failed = (CloseSubmitted(ticker, available)
                                            /\ outcome = "raised")]
    /\ close_requests' = RequestsAfterClose(ticker, available, outcome)
    /\ steps' = steps + 1
    /\ UNCHANGED <<is_backtest, positions, cash_balance, equity, unrealized_pnl>>
    /\ UNCHANGED <<appVars, wsVars, shVars, pending_orders>>

(***************************************************************************)
(* PositionManager.update_pending_orders                                   *)
(***************************************************************************)
\* What get_orders may return: orders with their symbol and status.
BrokerOrderLists ==
    {<<[symbol |-> "T1", status |-> "new"]>>,
     <<[symbol |-> "T1", status |-> "filled"], [symbol |-> "T2", status |-> "accepted"]>>}

\* Line 258: the order is still pending.
StillPending(order) == order.status \in {"new", "accepted", "pending"}

\* Lines 253-264: the list rebuilt from the orders that are still pending.
PendingOrdersOf(orders) ==
    LET kept == SelectSeq(orders, StillPending)
    IN  [i \in 1..Len(kept) |-> [ticker |-> kept[i].symbol]]

\* update_pending_orders() in live mode.  get_orders (line 250) is called before
\* the list is cleared, so its failure leaves pending_orders alone.
UpdatePendingOrders(orders, fails) ==
    /\ ~is_backtest
    /\ steps < MaxSteps
    /\ pending_orders' = IF fails THEN pending_orders ELSE PendingOrdersOf(orders)
    /\ last' = [NoCall EXCEPT !.op = "orders", !.accepted = ~fails, !.failed = fails]
    /\ steps' = steps + 1
    /\ UNCHANGED <<is_backtest, positions, pending_closes, cash_balance, equity,
                   unrealized_pnl>>
    /\ UNCHANGED <<appVars, wsVars, shVars, close_requests>>

Next ==
    \/ \E t \in Tickers : \E p \in PricesOf(t) : \E s \in Sides : \E k \in TargetPcts :
          SizingDecisionBacktest(t, p, s, k)
    \/ UpdatePositionsBacktest
    \/ \E t \in Tickers : \E p \in PricesOf(t) : ClosePositionBacktest(t, p)
    \/ \E m \in PriceMappings : UpdateBacktestAccountPositionValues(m)
    \/ \E t \in Tickers : \E p \in PricesOf(t) : \E s \in Sides : \E k \in TargetPcts :
          \E eq \in LiveEquities : \E f \in BOOLEAN :
             SizingDecisionLive(t, p, s, k, eq, f)
    \/ \E m \in BrokerListings : \E f \in SyncFailures : UpdatePositionsLive(m, f)
    \/ \E t \in Tickers : \E a \in BOOLEAN : \E o \in CloseOutcomes :
          ClosePositionLive(t, a, o)
    \/ \E orders \in BrokerOrderLists : \E f \in BOOLEAN :
          UpdatePendingOrders(orders, f)

Spec == Init /\ [][Next]_vars

(***************************************************************************)
(* Exit evaluation: should_close_position on the positions that fills      *)
(* (simulated mode) and position syncs (live mode) put in the map          *)
(***************************************************************************)
NextExit ==
    \/ \E t \in Tickers : \E p \in PricesOf(t) : \E s \in Sides : \E k \in TargetPcts :
          SizingDecisionBacktest(t, p, s, k)
    \/ UpdatePositionsBacktest
    \/ \E t \in Tickers : \E sg \in Signals : \E h \in HeldHours :
          ShouldClosePositionBacktest(t, sg, h)
    \/ \E m \in PriceMappings : \E h \in HeldHours : CheckPositionsBacktest(m, h)
    \/ \E m \in BrokerListings : \E f \in SyncFailures : UpdatePositionsLive(m, f)
    \/ \E t \in Tickers : \E sg \in Signals : \E h \in HeldHours :
          \E eq \in LiveEquities : \E f \in BOOLEAN :
             ShouldClosePositionLive(t, sg, h, eq, f)

SpecExit == Init /\ [][NextExit]_vars

(***************************************************************************)
(* websocket_backtest (src/app/app.py) and the backtest tasks it launches  *)
(***************************************************************************)
\* MissingField with the test of line 161 dropped: no message is incomplete.
MissingField_Never(msg) == FALSE

\* Line 161: not ticker or not strategy.
MissingField(msg) == msg.ticker = NoValue \/ msg.strategy = NoValue

\* AlreadyRunning with the membership test dropped: every request is accepted.
AlreadyRunning_Never(ticker) == FALSE

\* Line 166: ticker in trading_system.backtest_system.running_backtests.
AlreadyRunning(ticker) == ticker \in running_backtests

\* Lines 161-175: the reply to a request message.
ReplyTo(msg) ==
    IF MissingField(msg) THEN "error"
    ELSE IF AlreadyRunning(msg.ticker) THEN "already_running"
    ELSE "started"

NumReceived == Len(replies["c1"]) + Len(replies["c2"])

\* Lines 156-175, from the return of receive_json to the await of send_json: the
\* coroutine runs without suspension, so the check of running_backtests, the
\* create_task and the choice of the reply are one step.  The created task has
\* not run yet.
ReceiveMessage(c, msg) ==
    /\ handler[c].pc = "receive"
    /\ NumReceived < MaxMessages
    /\ handler' = [handler EXCEPT ![c] = [pc |-> "send", ticker |-> msg.ticker,
                                          strategy |-> msg.strategy]]
    /\ replies' = [replies EXCEPT ![c] = Append(@, ReplyTo(msg))]
    /\ tasks' = IF ReplyTo(msg) = "started"
                THEN Append(tasks, [ticker |-> msg.ticker, state |-> "created", by |-> c])
                ELSE tasks
    /\ UNCHANGED running_backtests
    /\ UNCHANGED <<appVars, pmVars, shVars, brVars>>

\* The await of send_json returns and the loop goes back to receive_json.
SendComplete(c) ==
    /\ handler[c].pc = "send"
    /\ handler' = [handler EXCEPT ![c].pc = "receive"]
    /\ UNCHANGED <<running_backtests, tasks, replies>>
    /\ UNCHANGED <<appVars, pmVars, shVars, brVars>>

\* start_backtest_for_ticker, first step: a ticker already in the active-run set
\* is turned down, otherwise it joins the set and the run begins.
TaskFirstStep(i) ==
    /\ tasks[i].state = "created"
    /\ IF tasks[i].ticker \in running_backtests
       THEN /\ tasks' = [tasks EXCEPT ![i].state = "rejected"]
            /\ UNCHANGED running_backtests
       ELSE /\ tasks' = [tasks EXCEPT ![i].state = "running"]
            /\ running_backtests' = running_backtests \cup {tasks[i].ticker}
    /\ UNCHANGED <<handler, replies>>
    /\ UNCHANGED <<appVars, pmVars, shVars, brVars>>

\* start_backtest_for_ticker, end of the run: the ticker leaves the active-run set.
TaskFinish(i) ==
    /\ tasks[i].state = "running"
    /\ tasks' = [tasks EXCEPT ![i].state = "finished"]
    /\ running_backtests' = running_backtests \ {tasks[i].ticker}
    /\ UNCHANGED <<handler, replies>>
    /\ UNCHANGED <<appVars, pmVars, shVars, brVars>>

\* BacktestSystem.stop_backtest(): called with no ticker and no connection, it
\* stops every run in progress, and each stopped run leaves the active-run set.
\* A task that was created and has not started yet is not a run in progress.
StopBacktest(ts) ==
    [i \in DOMAIN ts |->
        IF ts[i].state = "running" THEN [ts[i] EXCEPT !.state = "stopped"] ELSE ts[i]]

\* Lines 177-180: receive_json raises WebSocketDisconnect; the handler calls
\* stop_backtest() and ends.
Disconnect(c) ==
    /\ handler[c].pc = "receive"
    /\ handler' = [handler EXCEPT ![c].pc = "closed"]
    /\ tasks' = StopBacktest(tasks)
    /\ running_backtests' = {}
    /\ UNCHANGED replies
    /\ UNCHANGED <<appVars, pmVars, shVars, brVars>>

InitWs == Init /\ is_backtest

NextWs ==
    \/ \E c \in Conns : \E msg \in Messages : ReceiveMessage(c, msg)
    \/ \E c \in Conns : SendComplete(c)
    \/ \E i \in DOMAIN tasks : TaskFirstStep(i)
    \/ \E i \in DOMAIN tasks : TaskFinish(i)
    \/ \E c \in Conns : Disconnect(c)

SpecWs == InitWs /\ [][NextWs]_vars

(***************************************************************************)
(* lifespan (src/app/app.py): start-up and shutdown of the application     *)
(***************************************************************************)
\* Lines 24-29: the trading system is built and its run() is scheduled as a
\* task.  data_handler and backtest_system say whether the attribute of that
\* name is not None (the tests of lines 38 and 40).
Startup(data_handler, backtest_system) ==
    /\ app.phase = "created"
    /\ app' = [app EXCEPT !.phase = "running", !.data_handler = data_handler,
                          !.backtest_system = backtest_system,
                          !.trader_task = "running"]
    /\ UNCHANGED <<pmVars, wsVars, shVars, brVars>>

\* Line 39: trading_system.data_handler.shutdown().  DataHandler
\* (src/app/handlers/data_handler.py) defines no shutdown method, so the call
\* raises AttributeError.
DataHandlerShutdownRaises == TRUE

\* Lines 34-43, the finally block up to its await: the trader task is asked to
\* cancel, the data handler is shut down, the backtests are stopped.  An
\* exception of line 39 leaves the block at once: stop_backtest is not called
\* and the trader task is not awaited.
Shutdown ==
    /\ app.phase = "running"
    /\ IF app.data_handler /\ DataHandlerShutdownRaises
       THEN /\ app' = [app EXCEPT !.phase = "ended", !.raised = TRUE,
                                  !.trader_task = "cancelling"]
            /\ UNCHANGED <<tasks, running_backtests>>
       ELSE IF app.backtest_system
       THEN /\ app' = [app EXCEPT !.phase = "awaiting", !.stop_invoked = TRUE,
                                  !.trader_task = "cancelling"]
            /\ tasks' = StopBacktest(tasks)
            /\ running_backtests' = {}
       ELSE /\ app' = [app EXCEPT !.phase = "awaiting", !.trader_task = "cancelling"]
            /\ UNCHANGED <<tasks, running_backtests>>
    /\ UNCHANGED <<handler, replies>>
    /\ UNCHANGED <<pmVars, shVars, brVars>>

\* trading_system.run() receives CancelledError at its await and ends.
TraderCancelled ==
    /\ app.trader_task = "cancelling"
    /\ app' = [app EXCEPT !.trader_task = "cancelled"]
    /\ UNCHANGED <<pmVars, wsVars, shVars, brVars>>

\* Lines 43-46: await trader_task returns with CancelledError, which is caught.
ShutdownComplete ==
    /\ app.phase = "awaiting"
    /\ app.trader_task = "cancelled"
    /\ app' = [app EXCEPT !.phase = "ended"]
    /\ UNCHANGED <<pmVars, wsVars, shVars, brVars>>

\* The /ws/backtest handlers and the backtest tasks run while the application
\* is up and has a backtest system.
NextApp ==
    \/ \E dh \in BOOLEAN : \E bs \in BOOLEAN : Startup(dh, bs)
    \/ app.phase = "running" /\ app.backtest_system /\ NextWs
    \/ Shutdown
    \/ TraderCancelled
    \/ ShutdownComplete

SpecApp == InitWs /\ [][NextApp]_vars

(***************************************************************************)
(* The signal aggregation layer on its own                                 *)
(***************************************************************************)
NextSignals ==
    \E backtest \in BOOLEAN :
       \E empty \in [ConfiguredSet -> BOOLEAN] :
          \E outs \in [ConfiguredSet -> [StrategySet -> StrategyOutputs]] :
             GenerateSignals(backtest, empty, outs)

SpecSignals == InitWs /\ [][NextSignals]_vars

(***************************************************************************)
(* Claims about sizing and the simulated ledger                            *)
(***************************************************************************)
Decided == last.op = "decide" /\ ~last.raised

\* Total exposure, as a percentage of the equity eq, exceeds k: the sum of
\* |qty| * current_price over the positions not pending close, over eq.
TotalExposureAbove(eq, k) ==
    eq > 0 /\ SumValue(positions, DOMAIN positions \ pending_closes) * 100 > k * eq

\* C3: after a sizing decision and the fill it authorises, the total exposure of
\* the positions not pending close is at most max_total_exposure (160%).
C3_ExposureWithinCeilingAfterFill ==
    (last.op = "fill" /\ last.accepted) => ~TotalExposureAbove(equity, 160)

\* C4: calculate_target_position never returns allow = true with 0 shares.
C4_NeverAllowsZeroShares ==
    Decided => ~(last.allow /\ last.shares = 0)

\* The ticker of the last decision has a position in the map whose exposure, at
\* the decision's equity, is at or above the decision's target percentage.
AtOrAboveTarget ==
    /\ last.ticker \in DOMAIN positions
    /\ last.eq > 0
    /\ Abs(positions[last.ticker].qty) * positions[last.ticker].current_price * 100
          >= last.pct * last.eq

C6_RefusalReturnsZero ==
    (Decided /\ ~last.allow) => last.shares = 0

\* C7: a BUY on a ticker with no position, with total exposure below the ceiling,
\* returns (floor(equity * target_pct / price), allow = true).
C7_NewPositionSizing ==
    (/\ Decided /\ last.side = BUY /\ ~last.held_before
     /\ ~(last.eq > 0 /\ SumValue(positions, DOMAIN positions \ pending_closes) * 100
                           >= 160 * last.eq))
        => (last.allow /\ last.shares = Floor(last.eq * last.pct, 100 * last.price))

\* The specification's example: equity 30000, target 8%, price 50 gives 48 shares.
C7_Witness ==
    /\ Decided /\ last.side = BUY /\ ~last.held_before
    /\ last.eq = 30000 /\ last.pct = 8 /\ last.price = 50
    /\ last.shares = 48 /\ last.allow

\* C7, for an equity that is not negative: there int() and floor agree.
C7_NewPositionSizingNonNegativeEquity ==
    last.eq >= 0 => C7_NewPositionSizing

\* C8: a further BUY on a ticker whose position has pl_pct < -0.02 returns (0, false).
C8_NeverAveragesDown ==
    (/\ Decided /\ last.side = BUY
     /\ last.ticker \in DOMAIN positions
     /\ LET p == positions[last.ticker]
        IN  SideSign(p.side) * (p.current_price - p.entry_price) * 100
               < -2 * p.entry_price)
        => (last.shares = 0 /\ ~last.allow)

\* C9: immediately after a price update batch, equity = cash_balance + unrealized_pnl.
C9_EquityAfterBatch ==
    last.op = "batch" => equity = cash_balance + unrealized_pnl

\* A batch that refreshed a held position with a non-zero P&L, after cash was spent.
C9_Witness ==
    /\ last.op = "batch"
    /\ unrealized_pnl # 0
    /\ cash_balance # starting_balance
    /\ \E t \in DOMAIN positions : positions[t].pl # 0

\* C10: closing a long position of q shares at price p increases cash_balance by q * p.
C10_CloseLongCreditsCash ==
    (last.op = "close" /\ last.held_before /\ last.side_before = BUY)
        => cash_balance = last.cash_before + last.qty_before * last.price

\* C11: in simulated mode close_position on a held ticker removes it from the
\* position map in the same call, enters no pending-close state and leaves every
\* other ticker's position unchanged; on a ticker with no position it changes
\* nothing.
C11_SimulatedCloseFrame ==
    [][last'.op = "close" =>
          /\ pending_closes' = pending_closes
          /\ IF last'.ticker \in DOMAIN positions
             THEN /\ DOMAIN positions' = DOMAIN positions \ {last'.ticker}
                  /\ \A u \in DOMAIN positions' : positions'[u] = positions[u]
             ELSE /\ positions' = positions
                  /\ cash_balance' = cash_balance
                  /\ equity' = equity
                  /\ unrealized_pnl' = unrealized_pnl]_vars

\* A held ticker was closed while another ticker's position stayed in the map.
C11_Witness ==
    /\ last.op = "close" /\ last.held_before
    /\ last.ticker \notin DOMAIN positions
    /\ DOMAIN positions # {}
    /\ pending_closes = {}

\* C22: after every price update batch the ledger's unrealized P&L equals the
\* sum of the unrealized P&L of the positions held in the map; nothing of
\* earlier batches or of closed positions stays in it.
C22_UnrealizedIsSumOfPositions ==
    last.op = "batch" => unrealized_pnl = SumPl(positions, DOMAIN positions)

\* C23: after an accepted BUY fill of n shares on a ticker that held an open
\* position of q shares, the map holds q + n shares for the ticker.
C23_ResizeAddsShares ==
    (last.op = "fill" /\ last.accepted /\ last.side = BUY /\ last.open_before)
        => positions[last.ticker].qty = last.qty_before + last.shares

\* C24: every position in the position map of the simulated ledger is open.
C24_HeldPositionsAreOpen ==
    is_backtest => \A t \in DOMAIN positions : positions[t].is_open

\* C27: an accepted BUY fill of n shares at price p decreases cash_balance by
\* exactly n * p; a BUY whose cost exceeds cash_balance is rejected and leaves
\* cash_balance and the position map unchanged.
C27_BuyDebitsCostOnce ==
    /\ (last.op = "fill" /\ last.accepted /\ last.side = BUY)
          => cash_balance = last.cash_before - last.shares * last.price
    /\ (last.op = "fill" /\ last.side = BUY
          /\ last.shares * last.price > last.cash_before)
          => (~last.accepted /\ cash_balance = last.cash_before)

\* C27, second half alone: a BUY that costs more than the cash at hand is
\* rejected and leaves the cash and the position map as they were.
C27_UnaffordableBuyRejected ==
    [][(last'.op = "fill" /\ last'.side = BUY
          /\ last'.shares * last'.price > cash_balance)
          => (~last'.accepted /\ cash_balance' = cash_balance
              /\ positions' = positions)]_vars

\* C28: in simulated mode cash_balance is never negative.
C28_CashNeverNegative ==
    is_backtest => cash_balance >= 0

(***************************************************************************)
(* Claims about live mode                                                  *)
(***************************************************************************)
\* C13: in live mode no PositionManager operation raises when a brokerage call
\* fails: the failure is caught and the operation returns normally.
C13_LiveOperationsNeverRaise ==
    ~is_backtest => ~last.raised

\* C17: once a close request for a ticker has been submitted to the brokerage,
\* close_position submits no second one for that ticker until the brokerage has
\* confirmed the first, whatever order status the submission returned: no
\* ticker ever has two unconfirmed close requests.
C17_NoSecondCloseRequest ==
    \A t \in Tickers : close_requests[t] <= 1

\* C18: after a position sync in which the brokerage no longer reports a ticker,
\* the ticker is not marked pending-close any more.
C18_PendingClearedOnConfirmation ==
    (last.op = "sync" /\ last.accepted) => pending_closes \subseteq DOMAIN positions

\* C19: when a brokerage call made by update_positions, update_pending_orders or
\* close_position fails, the position map, pending_closes and pending_orders
\* are the same after the operation as before.
C19_FailureChangesNothing ==
    [][(last'.op \in {"sync", "orders", "close_live"} /\ last'.failed)
          => /\ positions' = positions
             /\ pending_closes' = pending_closes
             /\ pending_orders' = pending_orders]_vars

\* C19, for update_pending_orders and close_position alone.
C19_FailureOfOrdersOrCloseChangesNothing ==
    [][(last'.op \in {"orders", "close_live"} /\ last'.failed)
          => /\ positions' = positions
             /\ pending_closes' = pending_closes
             /\ pending_orders' = pending_orders]_vars

(***************************************************************************)
(* Claims about should_close_position                                      *)
(***************************************************************************)
\* The last call was should_close_position on a held ticker.
CloseChecked == last.op = "should_close" /\ last.ticker \in DOMAIN positions

\* C12: should_close_position returns true for every position held more than 5
\* days (120 hours) whose absolute P&L percentage is under 1%, whatever the
\* signal's score and momentum.
C12_StagnantPositionCloses ==
    (/\ CloseChecked
     /\ last.hours > 120
     /\ PlPctAbsBelow(positions[last.ticker], 1))
        => last.close

\* C12, for a call that returns and an age counted in whole days.
C12_StagnantPositionClosesWholeDays ==
    (/\ CloseChecked /\ ~last.raised
     /\ Days(last.hours) > 5
     /\ PlPctAbsBelow(positions[last.ticker], 1))
        => last.close

\* A position held 6 days with no P&L, no score and no momentum was found stagnant.
C12_Witness ==
    /\ CloseChecked /\ ~last.raised
    /\ last.hours = 144
    /\ PlPctAbsBelow(positions[last.ticker], 1)
    /\ last.signal = [score |-> <<>>, momentum |-> <<>>]
    /\ last.close

\* The score of the last exit evaluation is below 0.4 on a long position, or above
\* 0.6 on a short one.
ScoreDisagrees ==
    /\ last.signal.score # <<>>
    /\ \/ positions[last.ticker].side = BUY /\ last.signal.score[1] < 40
       \/ positions[last.ticker].side = SELL /\ last.signal.score[1] > 60

\* C16: should_close_position returns true for a long position whenever the
\* score is below 0.4 and for a short position whenever it is above 0.6, for
\* every score in [0, 1], 0 included.
C16_DisagreeingScoreCloses ==
    (CloseChecked /\ ~last.raised /\ ScoreDisagrees) => last.close

\* C16, for scores other than 0.
C16_DisagreeingNonZeroScoreCloses ==
    (CloseChecked /\ ~last.raised /\ ScoreDisagrees /\ last.signal.score[1] # 0)
        => last.close

\* A long position was evaluated against a score of 0.30 and found closable.
C16_Witness ==
    /\ CloseChecked /\ ~last.raised /\ ScoreDisagrees
    /\ positions[last.ticker].side = BUY /\ last.signal.score = <<30>>
    /\ last.close

\* C26: in simulated mode check_positions completes without error and closes
\* every position that meets an exit condition, however many positions the map
\* holds and however many of them are closed in the pass.
C26_CheckPositionsCompletes ==
    last.op = "check" =>
        /\ ~last.raised
        /\ ClosablePositions(last.hours) = {}

\* C26, for a pass in which no position meets an exit condition.
C26_CheckPositionsCompletesWithoutCloses ==
    (last.op = "check" /\ ~last.close /\ equity # 0) => ~last.raised

\* A pass over a non-empty map in which nothing had to be closed completed.
C26_Witness ==
    /\ last.op = "check" /\ last.held_before
    /\ ~last.close /\ ~last.raised
    /\ positions # EmptyPositions

(***************************************************************************)
(* Claims about /ws/backtest                                               *)
(***************************************************************************)
\* The tasks launched for ticker t that have not ended.
LiveTasks(t) ==
    {i \in DOMAIN tasks : tasks[i].ticker = t /\ tasks[i].state \in {"created", "running"}}

\* C1: concurrent start requests for one ticker resolve to exactly one accepted
\* run: while a launched task for the ticker has not ended, no second request
\* for it is answered "started" and launches another task.
C1_OneAcceptedRun ==
    \A t \in Tickers : Cardinality(LiveTasks(t)) <= 1

\* Connection c was just answered "already_running".
JustTurnedDown(c) ==
    /\ handler[c].pc = "send"
    /\ Len(replies[c]) > 0
    /\ replies[c][Len(replies[c])] = "already_running"

SignalsReturned == signal_call.op = "generate" /\ ~signal_call.raised

\* Strategy number j, run on ticker t, gives a signal with an action on non-empty data.
Produces(t, j) ==
    /\ ~signal_call.empty[t]
    /\ signal_call.outs[t][Strategies[j]] \notin {"none", "no_action"}

\* The result holds t exactly when some strategy produces for t, and then holds
\* the signal of the last such strategy in registry order.
LastWriteWins(t) ==
    /\ t \in DOMAIN signal_call.result <=> \E j \in DOMAIN Strategies : Produces(t, j)
    /\ t \in DOMAIN signal_call.result =>
          \E j \in DOMAIN Strategies :
             /\ Produces(t, j)
             /\ \A k \in DOMAIN Strategies : k > j => ~Produces(t, k)
             /\ signal_call.result[t] =
                   [strategy |-> Strategies[j],
                    action |-> signal_call.outs[t][Strategies[j]]]

\* C14 (as claimed): the result of generate_signals contains a configured ticker
\* exactly when at least one registered strategy produced a signal with an
\* action for it on non-empty data, and maps it to the signal of the last such
\* strategy in registry order; a later strategy that returns None or a signal
\* without action neither removes nor replaces it.
C14_LastWriteWins ==
    SignalsReturned => \A t \in ConfiguredSet : LastWriteWins(t)

\* C14 (amended): the same for every configured ticker other than VXX; VXX is
\* never in the result.
C14_LastWriteWinsExceptVXX ==
    SignalsReturned =>
        /\ \A t \in ConfiguredSet \ {"VXX"} : LastWriteWins(t)
        /\ "VXX" \notin DOMAIN signal_call.result
        /\ DOMAIN signal_call.result \subseteq ConfiguredSet

\* For T1 the first strategy gave a signal and the second gave an action-less
\* one, and the first strategy's signal is in the result; for T2 both gave a
\* signal and the second strategy's is in the result.
C14_Witness ==
    /\ SignalsReturned
    /\ ~signal_call.empty["T1"] /\ ~signal_call.empty["T2"]
    /\ signal_call.outs["T1"] = [st \in StrategySet |->
                                   IF st = Strategies[1] THEN BUY ELSE "no_action"]
    /\ signal_call.outs["T2"] = [st \in StrategySet |-> BUY]
    /\ signal_call.result =
          [t \in {"T1", "T2"} |->
             [strategy |-> IF t = "T1" THEN Strategies[1] ELSE Strategies[2],
              action |-> BUY]]

\* C15: in live and in backtest mode, generate_signals completes without
\* raising when a configured ticker has an empty time series, leaves that ticker
\* out and still returns the other tickers' signals.
C15_EmptySeriesNotFatal ==
    (signal_call.op = "generate" /\ \E t \in ConfiguredSet : signal_call.empty[t])
        => /\ ~signal_call.raised
           /\ \A t \in ConfiguredSet \ {"VXX"} :
                 IF signal_call.empty[t] THEN t \notin DOMAIN signal_call.result
                 ELSE LastWriteWins(t)

\* C15, in backtest mode only.
C15_EmptySeriesNotFatalBacktest ==
    signal_call.backtest => C15_EmptySeriesNotFatal

(***************************************************************************)
(* Claims about disconnection                                              *)
(***************************************************************************)
\* The tickers of the runs connection c started.
TickersOf(c) == {tasks[i].ticker : i \in {k \in DOMAIN tasks : tasks[k].by = c}}

\* C20: when one observer's /ws/backtest connection disconnects, the running
\* backtests for other tickers that other, still connected observers started
\* are not stopped.
C20_DisconnectStopsOnlyOwnRuns ==
    [][\A c \in Conns :
          (handler[c].pc # "closed" /\ handler'[c].pc = "closed")
             => \A i \in DOMAIN tasks :
                   (/\ tasks[i].state = "running"
                    /\ tasks[i].by # c
                    /\ handler[tasks[i].by].pc # "closed"
                    /\ tasks[i].ticker \notin TickersOf(c))
                      => tasks'[i].state = "running"]_vars

\* A connection disconnected while a run it started was in progress, and that
\* run was stopped.
C20_Witness ==
    \E c \in Conns :
        /\ handler[c].pc = "closed"
        /\ \E i \in DOMAIN tasks : tasks[i].by = c /\ tasks[i].state = "stopped"

(***************************************************************************)
(* Claims about incomplete requests                                        *)
(***************************************************************************)
\* Connection c has just received a message: its coroutine went from the await
\* of receive_json to the await of send_json.
Received(c) == handler[c].pc = "receive" /\ handler'[c].pc = "send"

\* C25: a request that lacks a ticker or a strategy is answered with an error,
\* starts no backtest task and leaves the active-run set unchanged, and the
\* connection goes on to its next receive; every request is answered with
\* exactly one of error, already running, started.
C25_IncompleteRequestRejected ==
    /\ [][\A c \in Conns :
            Received(c) =>
               /\ replies'[c] \in {Append(replies[c], r) :
                                      r \in {"error", "already_running", "started"}}
               /\ (handler'[c].ticker = NoValue \/ handler'[c].strategy = NoValue)
                     => /\ replies'[c] = Append(replies[c], "error")
                        /\ tasks' = tasks
                        /\ running_backtests' = running_backtests]_vars
    /\ [][\A c \in Conns :
            handler[c].pc = "send" =>
               /\ handler'[c].pc \in {"send", "receive"}
               /\ replies'[c] = replies[c]]_vars
    /\ [](\A c \in Conns : handler[c].pc = "send" => ENABLED SendComplete(c))

\* A connection was answered "error" and then had a later request accepted.
C25_Witness ==
    \E c \in Conns :
        /\ Len(replies[c]) >= 2
        /\ replies[c][1] = "error"
        /\ replies[c][2] = "started"
        /\ \E i \in DOMAIN tasks : tasks[i].by = c

(***************************************************************************)
(* Claims about shutdown                                                   *)
(***************************************************************************)
\* The trader task was cancelled and awaited, and every backtest was stopped.
CleanShutdown ==
    /\ ~app.raised
    /\ app.trader_task = "cancelled"
    /\ app.backtest_system =>
          /\ app.stop_invoked
          /\ \A i \in DOMAIN tasks : tasks[i].state # "running"

\* C21: when the lifespan context has been left, the live-loop task has been
\* cancelled and awaited and every active backtest has been stopped, whatever
\* state the trading system was in at shutdown.
C21_ShutdownStopsEverything ==
    app.phase = "ended" => CleanShutdown

\* C21, for a trading system whose data_handler is None.
C21_ShutdownWithoutDataHandler ==
    (app.phase = "ended" /\ ~app.data_handler) => CleanShutdown

\* A shutdown without data handler completed after stopping a running backtest.
C21_Witness ==
    /\ app.phase = "ended" /\ ~app.data_handler /\ CleanShutdown
    /\ \E i \in DOMAIN tasks : tasks[i].state = "stopped"
====
